---- MODULE Spec2Model ----
(***************************************************************************)
(* Referral ledger of the MSTC mini-app backend (src/backend/app.py).      *)
(*                                                                         *)
(* The store is the users table (src/backend/models.py) as the request     *)
(* handlers read and write it through one SQLAlchemy session per request.  *)
(* Money is kept in cents: the handlers round every computed amount to two *)
(* decimals, and all request amounts drawn here are whole cents.           *)
(* Python's None is the value NONE; a referrer id of 0 is a stored value   *)
(* that the handlers' truthiness tests read as "no referrer".              *)
(* The session is created with autoflush=False: a query sees the rows as   *)
(* last committed, db.get() returns the session's own (possibly modified)  *)
(* object, and every db.commit() persists all pending changes.             *)
(***************************************************************************)
EXTENDS Integers, Sequences, FiniteSets, TLC

\* ---------------------------------------------------------------- bounds
MaxDeposits == 2
MaxResets == 1
MaxResetDeposits == 3
MaxRegDeposits == 1
MaxFailDeposits == 2
MaxClubDeposits == 4
MaxActDeposits == 3
MaxRankDeposits == 2
MaxConcDeposits == 3
MaxInvalidDeposits == 3
MaxPoolDeposits == 3
MaxWebDeposits == 2
MaxWalks == 2
MaxWalkSteps == 4
MaxRaceDeposits == 2
MaxDriftDeposits == 2
MaxRecomputeDeposits == 2
MaxUpdates == 3

\* ------------------------------------------------------- program constants
COMPANY_USER_ID == -999999999
ACTIVATION_AMOUNT == 2000
CLUB_PCT == 2
LEVEL2_PCT == 3
LEVEL3_PCT == 2
MAX_LEVELS == 3
CREATOR_MIN == 10000000
VISIONARY_MIN == 2500000
ADVISOR_MIN == 500000
LIFE_CHANGER_MIN == 100000
LIFE_CHANGER_ORIGINS == 10

\* ------------------------------------------------------------ input sets
NONE == -1
IDs == {1, 2, 3}
AllIds == IDs \cup {COMPANY_USER_ID}
RefInputs == {NONE, 0} \cup IDs
Amounts == {100, 2000, 500000}
ExtRefs == {"", "TX1"}
FailPoints == {"resolve", "propagate", "club", "levels"}
ActAmounts == {1500, 2000}
ActRefs == {NONE, 1}
PoolAmounts == {250, 500000}
DriftAmounts == {2000, 500000}
RankAmounts == {2000, 500000, 2500000, 10000000}

\* users: the users table.  last: the last /webapp/verify request, its
\* response and the amounts it moved.  incs: how often each upline's
\* active_origin_count was raised on account of each depositor.  relink: the
\* last request that carried a referrer id to an account already holding
\* another one.  nDeposits, nResets: requests made so far.  events: the rows
\* of the transactions and referral_events tables.  pending: the deposit
\* requests in flight, each with the rows its session has read, and the
\* team business the committed deposits had to add to each account.
\* bot: the polling thread of bot.py and the updates Telegram holds for it.
VARIABLES users, last, incs, relink, nDeposits, nResets, events, pending, bot

vars == <<users, last, incs, relink, nDeposits, nResets, events, pending, bot>>

\* ------------------------------------------------------------- the store
\* models.py User: column defaults; club_income is the attribute the
\* distribution code accumulates commissions and club shares in.
NoUser ==
    [exists |-> FALSE, referrer_id |-> NONE, self_activated |-> FALSE,
     role |-> "user", total_team_business |-> 0, active_origin_count |-> 0,
     club_income |-> 0, balance_musd |-> 0, balance_mstc |-> 0]

Exists(db, id) == id \in AllIds /\ db[id].exists

\* Python truthiness of an id value: None and 0 are falsy.
Truthy(x) == x # NONE /\ x # 0

\* get_or_create_user / bot_start: a fresh row, referrer taken as given.
NewUser(ref) == [NoUser EXCEPT !.exists = TRUE, !.referrer_id = ref]

\* get_company_user: the lazily created pool row.
CompanyUser == [NoUser EXCEPT !.exists = TRUE, !.role = "company"]

\* a get_or_create_user that would take the referrer of every request that
\* carries one: the behaviour sponsor-link immutability excludes
GetOrCreateUserOverwriting(db, uid, ref) ==
    IF ~db[uid].exists
    THEN [db EXCEPT ![uid] = NewUser(ref)]
    ELSE IF ref # NONE
         THEN [db EXCEPT ![uid].referrer_id = ref]
         ELSE db

\* get_or_create_user(db, tg_user, ref_id); commits in both branches.
GetOrCreateUser(db, uid, ref) ==
    IF ~db[uid].exists
    THEN [db EXCEPT ![uid] = NewUser(ref)]
    ELSE IF db[uid].referrer_id = NONE /\ ref # NONE
         THEN [db EXCEPT ![uid].referrer_id = ref]
         ELSE db

\* link_referrer_if_needed(db, user, maybe_referrer_id)
LinkReferrerIfNeeded(db, uid, ref) ==
    IF db[uid].referrer_id # NONE THEN db
    ELSE IF ~Truthy(ref) THEN db
    ELSE IF ref = uid THEN db
    ELSE IF ~Exists(db, ref) THEN db
    ELSE [db EXCEPT ![uid].referrer_id = ref]

\* ------------------------------------------------------------------ rank
\* an update_rank that would test the activation flag before the business
\* thresholds
UpdateRankOriginFirst(u) ==
    IF u.self_activated THEN "origin"
    ELSE IF u.total_team_business >= CREATOR_MIN THEN "creator"
    ELSE IF u.total_team_business >= VISIONARY_MIN THEN "visionary"
    ELSE IF u.total_team_business >= ADVISOR_MIN THEN "advisor"
    ELSE IF u.total_team_business >= LIFE_CHANGER_MIN
            /\ u.active_origin_count >= LIFE_CHANGER_ORIGINS THEN "life_changer"
    ELSE IF u.role = "" THEN "user" ELSE u.role

\* update_rank(user): the role the call leaves in user.role.
UpdateRank(u) ==
    IF u.total_team_business >= CREATOR_MIN THEN "creator"
    ELSE IF u.total_team_business >= VISIONARY_MIN THEN "visionary"
    ELSE IF u.total_team_business >= ADVISOR_MIN THEN "advisor"
    ELSE IF u.total_team_business >= LIFE_CHANGER_MIN
            /\ u.active_origin_count >= LIFE_CHANGER_ORIGINS THEN "life_changer"
    ELSE IF u.self_activated THEN "origin"
    ELSE IF u.role = "" THEN "user" ELSE u.role

\* ROLE_LEVEL1_PCT.get(role_key, 0.0), in percent.
RoleLevel1Pct(role) ==
    CASE role = "origin" -> 5
      [] role = "life_changer" -> 10
      [] role = "advisor" -> 15
      [] role = "visionary" -> 20
      [] role = "creator" -> 25
      [] OTHER -> 0

\* the percentage chosen at the top of the distribution loop
LevelPct(level, role) ==
    IF level = 1 THEN RoleLevel1Pct(role)
    ELSE IF level = 2 THEN LEVEL2_PCT
    ELSE IF level = 3 THEN LEVEL3_PCT
    ELSE 0

\* qualification rules that would pay every upline whatever its rank or
\* activation: the behaviour the tier rules exclude
QualifiesUnconditionally(level, u) == level \in 1..MAX_LEVELS

\* the qualification rules of the distribution loop
Qualifies(level, u) ==
    IF level = 1 THEN u.self_activated
    ELSE IF level = 2
         THEN u.role \in {"life_changer", "advisor", "visionary", "creator"}
    ELSE IF level = 3 THEN u.role \in {"advisor", "visionary", "creator"}
    ELSE FALSE

\* ------------------------------------------------------------- rounding
\* round(n / d, 0) for n >= 0, d > 0, ties to even as Python's round().
RoundDiv(n, d) ==
    LET q == n \div d
        r == n % d
    IN  IF 2 * r < d THEN q
        ELSE IF 2 * r > d THEN q + 1
        ELSE IF q % 2 = 0 THEN q ELSE q + 1

\* round(amount * pct, 2) with amount in cents and pct in percent.
RoundPct(amount, pct) == RoundDiv(amount * pct, 100)

\* ------------------------------------------------------- upward walks
\* propagate_team_business: the loop, with its visited set.
RECURSIVE PropagateWalk(_, _, _, _, _)
PropagateWalk(mem, cur, visited, amount, became) ==
    LET rid == mem[cur].referrer_id IN
    IF ~Truthy(rid) \/ rid \in visited THEN [mem |-> mem, visited |-> visited]
    ELSE IF ~Exists(mem, rid) THEN [mem |-> mem, visited |-> visited]
    ELSE LET r1 == [mem[rid] EXCEPT
                       !.total_team_business = @ + amount,
                       !.active_origin_count = IF became THEN @ + 1 ELSE @]
             r2 == [r1 EXCEPT !.role = UpdateRank(r1)]
         IN  PropagateWalk([mem EXCEPT ![rid] = r2], rid,
                           visited \cup {rid}, amount, became)

\* a propagation that would stop after the direct sponsor
PropagateToSponsorOnly(mem, uid, amount, became) ==
    LET rid == mem[uid].referrer_id IN
    IF ~Truthy(rid) \/ ~Exists(mem, rid) THEN [mem |-> mem, visited |-> {}]
    ELSE LET r1 == [mem[rid] EXCEPT
                       !.total_team_business = @ + amount,
                       !.active_origin_count = IF became THEN @ + 1 ELSE @]
         IN  [mem |-> [mem EXCEPT ![rid] = [r1 EXCEPT !.role = UpdateRank(r1)]],
              visited |-> {rid}]

\* propagate_team_business(db, user, amount, became_origin_now)
PropagateTeamBusiness(mem, uid, amount, became) ==
    PropagateWalk(mem, uid, {}, amount, became)

\* get_uplines(db, user, max_levels): the upline ids, level 1 first.
RECURSIVE UplineWalk(_, _, _)
UplineWalk(mem, cur, level) ==
    LET rid == mem[cur].referrer_id IN
    IF level > MAX_LEVELS \/ ~Truthy(rid) THEN <<>>
    ELSE IF ~Exists(mem, rid) THEN <<>>
    ELSE <<rid>> \o UplineWalk(mem, rid, level + 1)

GetUplines(mem, uid) == UplineWalk(mem, uid, 1)

\* ---------------------------------------------------------- company pool
\* an add_to_company_pool that would lose the amount that makes it create
\* the pool row
AddToCompanyPoolAfterCreation(st, amount) ==
    IF amount <= 0 THEN st
    ELSE IF ~st.mem[COMPANY_USER_ID].exists
    THEN LET mem1 == [st.mem EXCEPT ![COMPANY_USER_ID] = CompanyUser]
         IN  [mem |-> mem1, db |-> mem1]
    ELSE [st EXCEPT !.mem[COMPANY_USER_ID].balance_musd = @ + amount]

\* A session state is the pair mem (the session's objects) and db (the rows
\* as last committed).  add_to_company_pool -> get_company_user: creating the
\* pool row commits the whole session.
AddToCompanyPool(st, amount) ==
    IF amount <= 0 THEN st
    ELSE LET created == ~st.mem[COMPANY_USER_ID].exists
             mem1 == IF created
                     THEN [st.mem EXCEPT ![COMPANY_USER_ID] = CompanyUser]
                     ELSE st.mem
             db1 == IF created THEN mem1 ELSE st.db
         IN  [mem |-> [mem1 EXCEPT ![COMPANY_USER_ID].balance_musd = @ + amount],
              db |-> db1]

\* ------------------------------------------------------------ club bonus
ClubCut(amount) == RoundPct(amount, CLUB_PCT)

\* the achievers query; with autoflush off it filters the committed rows.
Achievers(db) ==
    {u \in AllIds : db[u].exists /\ db[u].self_activated
                    /\ db[u].role \in {"life_changer", "advisor", "visionary", "creator"}}

PerUser(cut, n) == RoundDiv(cut, n)

\* distribute_club_bonus(db, amount)
DistributeClubBonus(st, amount) ==
    LET cut == ClubCut(amount)
        ach == Achievers(st.db)
        n == Cardinality(ach)
    IN  IF cut <= 0 THEN st
        ELSE IF n = 0 THEN AddToCompanyPool(st, cut)
        ELSE IF PerUser(cut, n) <= 0 THEN AddToCompanyPool(st, cut)
        ELSE LET per == PerUser(cut, n)
                 mem1 == [u \in AllIds |->
                            IF u \in ach
                            THEN [st.mem[u] EXCEPT !.club_income = @ + per]
                            ELSE st.mem[u]]
                 leftover == cut - n * per
             IN  IF leftover > 0
                 THEN AddToCompanyPool([st EXCEPT !.mem = mem1], leftover)
                 ELSE [st EXCEPT !.mem = mem1]

\* ------------------------------------------------- referral distribution
\* the loop over get_uplines in webapp_verify; acc carries the session state
\* and the referral_dist list built so far.
RECURSIVE DistributeLevels(_, _, _, _)
DistributeLevels(acc, uplines, level, amount) ==
    IF level > Len(uplines) THEN acc
    ELSE LET up == uplines[level]
             u == acc.st.mem[up]
             pct == LevelPct(level, u.role)
             bonus == RoundPct(amount, pct)
         IN  IF pct <= 0 THEN DistributeLevels(acc, uplines, level + 1, amount)
             ELSE IF Qualifies(level, u)
             THEN DistributeLevels(
                      [st |-> [acc.st EXCEPT !.mem[up].club_income = @ + bonus],
                       dist |-> Append(acc.dist,
                                  [level |-> level, to_user_id |-> up,
                                   amount |-> bonus])],
                      uplines, level + 1, amount)
             ELSE DistributeLevels(
                      [st |-> AddToCompanyPool(acc.st, bonus),
                       dist |-> Append(acc.dist,
                                  [level |-> 0, to_user_id |-> NONE,
                                   amount |-> bonus])],
                      uplines, level + 1, amount)

\* ------------------------------------------------------------ /webapp/verify
\* the "Force-link if needed" block after get_or_create_user; commits.
ForceLink(db, uid, ref) ==
    IF db[uid].referrer_id = NONE /\ Truthy(ref) /\ ref # uid
    THEN [db EXCEPT ![uid].referrer_id = ref]
    ELSE db

\* an activation test that would not look at the flag: every deposit of the
\* threshold amount would activate again
BecameOriginAgain(u, amount) == amount >= ACTIVATION_AMOUNT

\* became_origin_now
BecameOriginNow(u, amount) == ~u.self_activated /\ amount >= ACTIVATION_AMOUNT

\* an activation that would test the depositor's cumulative business instead
\* of the amount of the deposit
ActivateOnCumulative(u, amount) ==
    LET became == ~u.self_activated
                  /\ u.total_team_business + amount >= ACTIVATION_AMOUNT IN
    [u EXCEPT !.self_activated = IF became THEN TRUE ELSE @,
              !.role = IF became THEN "origin" ELSE @,
              !.total_team_business = @ + amount]

\* ACTIVATION and SELF BUSINESS blocks: the depositor's own row.
ActivateAndSelfBusiness(u, amount) ==
    LET became == BecameOriginNow(u, amount) IN
    [u EXCEPT !.self_activated = IF became THEN TRUE ELSE @,
              !.role = IF became THEN "origin" ELSE @,
              !.total_team_business = @ + amount]

SumOver(f, S) ==
    LET RECURSIVE Sum(_)
        Sum(T) == IF T = {} THEN 0
                  ELSE LET x == CHOOSE y \in T : TRUE IN f[x] + Sum(T \ {x})
    IN  Sum(S)

TotalClubIncome(mem) == SumOver([u \in AllIds |-> mem[u].club_income], AllIds)

\* everything a store holds for its accounts, pool included
TotalHeld(mem) ==
    SumOver([u \in AllIds |-> mem[u].club_income + mem[u].balance_musd
                               + mem[u].balance_mstc], AllIds)

\* webapp_verify from get_or_create_user to the final commit, step by step:
\* the session state after each block of the handler.
VerifyRun(db, uid, ref, amount) ==
    LET s1 == GetOrCreateUser(db, uid, ref)
        s2 == ForceLink(s1, uid, ref)
        became == BecameOriginNow(s2[uid], amount)
        m3 == [s2 EXCEPT ![uid] = ActivateAndSelfBusiness(s2[uid], amount)]
        prop == PropagateTeamBusiness(m3, uid, amount, became)
        m4 == [prop.mem EXCEPT ![uid].role = UpdateRank(prop.mem[uid])]
        st4 == [mem |-> m4, db |-> s2]
        st5 == DistributeClubBonus(st4, amount)
        uplines == GetUplines(st5.mem, uid)
        acc == DistributeLevels([st |-> st5, dist |-> <<>>], uplines, 1, amount)
    IN  [resolved |-> s1, linked |-> s2, became |-> became,
         visited |-> prop.visited, propagated |-> st4, club |-> st5,
         uplines |-> uplines, levels |-> acc.st, dist |-> acc.dist,
         final |-> acc.st.mem]

\* what is left in the database when the handler raises at a given point
\* and the except block rolls the session back
RolledBack(db, run, fail) ==
    CASE fail = "resolve" -> db
      [] fail = "propagate" -> run.linked
      [] fail = "club" -> run.club.db
      [] fail = "levels" -> run.levels.db

Blank ==
    [op |-> "init", uid |-> NONE, amount |-> 0, ext |-> "", status |-> "",
     dup |-> FALSE, became |-> FALSE, role |-> "", referrer_id |-> NONE,
     dist |-> <<>>, uplines |-> <<>>, credited |-> 0, own_musd |-> 0,
     own_mstc |-> 0, club |-> [cut |-> 0, n |-> 0, shares |-> 0, pool |-> 0],
     level_income |-> [u \in IDs |-> 0], level_pool |-> 0, raw |-> ""]

IsDup(uid, amount, ext) ==
    /\ ext # ""
    /\ last.op = "verify" /\ last.status = "ok"
    /\ last.uid = uid /\ last.amount = amount /\ last.ext = ext

\* the counts of active_origin_count increments persisted per (depositor, upline)
CountIncrements(uid, became, visited, persisted) ==
    [d \in IDs |-> [p \in IDs |->
        IF d = uid /\ became /\ persisted /\ p \in visited
        THEN incs[d][p] + 1 ELSE incs[d][p]]]

\* a request that carries referrer id ref for account uid, whatever the endpoint
Relinked(uid, ref) ==
    IF users[uid].exists /\ Truthy(users[uid].referrer_id)
       /\ Truthy(ref) /\ ref # users[uid].referrer_id
    THEN [uid |-> uid, ref |-> ref]
    ELSE relink

WebappVerify(uid, ref, amount, ext) ==
    /\ LET run == VerifyRun(users, uid, ref, amount) IN
       /\ users' = run.final
       /\ last' = [Blank EXCEPT
             !.op = "verify", !.uid = uid, !.amount = amount, !.ext = ext,
             !.status = "ok", !.dup = IsDup(uid, amount, ext),
             !.became = run.became,
             !.role = run.final[uid].role,
             !.referrer_id = run.final[uid].referrer_id,
             !.dist = run.dist, !.uplines = run.uplines,
             !.credited = TotalHeld(run.final) - TotalHeld(users),
             !.own_musd = run.final[uid].balance_musd - users[uid].balance_musd,
             !.own_mstc = run.final[uid].balance_mstc - users[uid].balance_mstc,
             !.club = [cut |-> ClubCut(amount),
                       n |-> Cardinality(Achievers(run.propagated.db)),
                       shares |-> TotalClubIncome(run.club.mem)
                                  - TotalClubIncome(run.propagated.mem),
                       pool |-> run.club.mem[COMPANY_USER_ID].balance_musd
                                - run.propagated.mem[COMPANY_USER_ID].balance_musd],
             !.level_income = [u \in IDs |-> run.final[u].club_income
                                              - run.club.mem[u].club_income],
             !.level_pool = run.final[COMPANY_USER_ID].balance_musd
                            - run.club.mem[COMPANY_USER_ID].balance_musd]
       /\ incs' = CountIncrements(uid, run.became, run.visited, TRUE)
    /\ relink' = Relinked(uid, ref)
    /\ nDeposits' = nDeposits + 1
    /\ UNCHANGED <<nResets, events, bot, pending>>

\* the same request when a step raises: except -> db.rollback() -> 500
WebappVerifyFails(uid, ref, amount, fail) ==
    /\ LET run == VerifyRun(users, uid, ref, amount)
           left == RolledBack(users, run, fail)
       IN
       /\ users' = left
       /\ last' = [Blank EXCEPT
             !.op = "verify", !.uid = uid, !.amount = amount,
             !.status = "server_error"]
       /\ incs' = CountIncrements(uid, run.became, run.visited,
                      left[uid].total_team_business
                        # run.linked[uid].total_team_business)
    /\ relink' = IF fail = "resolve" THEN relink ELSE Relinked(uid, ref)
    /\ nDeposits' = nDeposits + 1
    /\ UNCHANGED <<nResets, events, bot, pending>>

\* ------------------------------------------------- the payload's amount
\* float('nan'), the value float() returns for the strings "nan" and "NaN"
\* and request.get_json for the JSON literal NaN.  Every ordering comparison
\* with a NaN is false and every sum with a NaN is a NaN; a stored NAN is
\* below every rank threshold, as the comparisons of update_rank find it.
NAN == -2

\* the "amount" of the payload: absent (None), not a number, zero, negative,
\* a NaN, and one valid amount
RawAmounts == {"None", "abc", "0", "-5", "nan", "1"}

\* amount = float(raw_amount or 0), except (TypeError, ValueError) -> 0.0;
\* in cents
ParseAmount(raw) ==
    CASE raw = "None" -> 0
      [] raw = "abc" -> 0
      [] raw = "0" -> 0
      [] raw = "-5" -> -500
      [] raw = "nan" -> NAN
      [] raw = "1" -> 100

\* if amount <= 0: return invalid_amount, 400
AmountRejected(amount) == amount # NAN /\ amount <= 0

HasNaN(db) ==
    \E u \in AllIds : \/ db[u].total_team_business = NAN
                      \/ db[u].club_income = NAN
                      \/ db[u].balance_musd = NAN

\* webapp_verify from get_or_create_user to the final commit when amount is
\* a NaN: no activation (nan >= 20 is false); the depositor's and every
\* visited ancestor's total_team_business become NaN and their ranks are
\* recomputed; club_cut, per_user and every bonus are NaN and pass the
\* "<= 0" tests, so every credit the handler makes stores a NaN.
VerifyNaN(db, uid, ref) ==
    LET s2 == ForceLink(GetOrCreateUser(db, uid, ref), uid, ref)
        visited == PropagateTeamBusiness(s2, uid, 0, FALSE).visited
        Ranked(row) == [row EXCEPT !.role = UpdateRank(row)]
        m4 == [u \in AllIds |->
                 IF u = uid \/ u \in visited
                 THEN Ranked([s2[u] EXCEPT !.total_team_business = NAN])
                 ELSE s2[u]]
        ach == Achievers(s2)
        uplines == GetUplines(m4, uid)
        paid == {k \in 1..Len(uplines) : LevelPct(k, m4[uplines[k]].role) > 0}
        credited == {uplines[k] : k \in {j \in paid : Qualifies(j, m4[uplines[j]])}}
        toPool == \/ ach = {}
                  \/ \E k \in paid : ~Qualifies(k, m4[uplines[k]])
        m5 == [u \in AllIds |->
                 IF u \in ach \cup credited
                 THEN [m4[u] EXCEPT !.club_income = NAN]
                 ELSE m4[u]]
    IN  IF toPool
        THEN [m5 EXCEPT ![COMPANY_USER_ID] =
                 [(IF m5[COMPANY_USER_ID].exists THEN m5[COMPANY_USER_ID]
                   ELSE CompanyUser) EXCEPT !.balance_musd = NAN]]
        ELSE m5

\* /webapp/verify with the amount as the payload carries it
WebappVerifyPayload(uid, ref, raw) ==
    LET amount == ParseAmount(raw) IN
    IF AmountRejected(amount)
    THEN /\ last' = [Blank EXCEPT !.op = "verify", !.uid = uid, !.raw = raw,
                                  !.status = "invalid_amount"]
         /\ nDeposits' = nDeposits + 1
         /\ UNCHANGED <<users, incs, relink, nResets, events, bot, pending>>
    ELSE IF amount = NAN
    THEN /\ users' = VerifyNaN(users, uid, ref)
         /\ last' = [Blank EXCEPT !.op = "verify", !.uid = uid, !.raw = raw,
                                  !.amount = NAN, !.status = "ok",
                                  !.role = users'[uid].role,
                                  !.referrer_id = users'[uid].referrer_id]
         /\ relink' = Relinked(uid, ref)
         /\ nDeposits' = nDeposits + 1
         /\ UNCHANGED <<incs, nResets, events, bot, pending>>
    ELSE WebappVerify(uid, ref, amount, "")

\* ------------------------------------------------- the upward walks
\* the accounts a walk with a visited set loads, in order: the loop of
\* propagate_team_business and of _increment_active_origins_for_upline
RECURSIVE VisitedChain(_, _, _)
VisitedChain(mem, cur, seen) ==
    LET rid == mem[cur].referrer_id IN
    IF ~Truthy(rid) \/ rid \in seen THEN <<>>
    ELSE IF ~Exists(mem, rid) THEN <<>>
    ELSE <<rid>> \o VisitedChain(mem, rid, seen \cup {rid})

\* _get_referrer_chain(db, user, max_levels): the same loop as get_uplines
GetReferrerChain(mem, uid) == UplineWalk(mem, uid, 1)

Walked(op, uid, visits, status) ==
    [Blank EXCEPT !.op = op, !.uid = uid, !.amount = ACTIVATION_AMOUNT,
                  !.uplines = visits, !.status = status]

NoWalkRunning == last.status # "walking"

\* get_uplines(db, user)
GetUplinesCall(uid) ==
    /\ NoWalkRunning /\ users[uid].exists
    /\ last' = Walked("get_uplines", uid, GetUplines(users, uid), "done")
    /\ nDeposits' = nDeposits + 1
    /\ UNCHANGED <<users, incs, relink, nResets, events, bot, pending>>

\* _get_referrer_chain(db, user)
ReferrerChainCall(uid) ==
    /\ NoWalkRunning /\ users[uid].exists
    /\ last' = Walked("_get_referrer_chain", uid, GetReferrerChain(users, uid), "done")
    /\ nDeposits' = nDeposits + 1
    /\ UNCHANGED <<users, incs, relink, nResets, events, bot, pending>>

\* propagate_team_business(db, user, amount, False)
PropagateCall(uid) ==
    /\ NoWalkRunning /\ users[uid].exists
    /\ users' = PropagateTeamBusiness(users, uid, ACTIVATION_AMOUNT, FALSE).mem
    /\ last' = Walked("propagate_team_business", uid,
                      VisitedChain(users, uid, {}), "done")
    /\ nDeposits' = nDeposits + 1
    /\ UNCHANGED <<incs, relink, nResets, events, bot, pending>>

\* _increment_active_origins_for_upline(db, new_origin_user)
IncrementCall(uid) ==
    /\ NoWalkRunning /\ users[uid].exists
    /\ LET visits == VisitedChain(users, uid, {}) IN
       /\ users' = [u \in AllIds |->
                      IF \E i \in 1..Len(visits) : visits[i] = u
                      THEN [users[u] EXCEPT !.active_origin_count = @ + 1]
                      ELSE users[u]]
       /\ last' = Walked("_increment_active_origins_for_upline", uid, visits, "done")
    /\ nDeposits' = nDeposits + 1
    /\ UNCHANGED <<incs, relink, nResets, events, bot, pending>>

\* credit_team_business(db, user, amount), one iteration of its while loop
\* at a time; current is last.cur.  The loop has no visited set and no
\* level limit: the walk is followed for MaxWalkSteps iterations.
CreditStart(uid) ==
    /\ NoWalkRunning /\ users[uid].exists
    /\ last' = [Walked("credit_team_business", uid, <<>>, "walking")
                  EXCEPT !.referrer_id = uid]
    /\ nDeposits' = nDeposits + 1
    /\ UNCHANGED <<users, incs, relink, nResets, events, bot, pending>>

CreditStep ==
    /\ last.op = "credit_team_business" /\ last.status = "walking"
    /\ Len(last.uplines) < MaxWalkSteps
    /\ LET rid == users[last.referrer_id].referrer_id IN
       IF ~Truthy(rid) \/ ~Exists(users, rid)
       THEN /\ last' = [last EXCEPT !.status = "done"]
            /\ users' = users
       ELSE /\ users' = [users EXCEPT ![rid].total_team_business = @ + last.amount]
            /\ last' = [last EXCEPT !.referrer_id = rid,
                                    !.uplines = Append(@, rid)]
    /\ UNCHANGED <<incs, relink, nDeposits, nResets, events, bot, pending>>

\* ------------------------------------------------- batch recomputation
\* db_utils.get_descendants: breadth-first over the children relation
\* (referrer_id == id) with a seen set; the account itself is never listed.
RECURSIVE DescendantsFrom(_, _, _)
DescendantsFrom(db, queue, seen) ==
    LET children == {c \in AllIds : db[c].exists
                                   /\ \E q \in queue : db[c].referrer_id = q}
        fresh == children \ (seen \cup queue)
    IN  IF fresh = {} THEN {}
        ELSE fresh \cup DescendantsFrom(db, fresh, seen \cup queue)

GetDescendants(db, uid) == DescendantsFrom(db, {uid}, {})

\* sum(Transaction.amount) over the 'activation' rows of the given accounts,
\* coalesced to 0
ActivationTotal(rows, ids) ==
    SumOver([i \in 1..Len(rows) |->
               IF rows[i].user_id \in ids /\ rows[i].type = "activation"
               THEN rows[i].amount ELSE 0],
            1..Len(rows))

\* db_utils.recompute_total_team_business(db, user_id); commits.
RecomputeTotalTeamBusiness(uid) ==
    LET ids == GetDescendants(users, uid)
        total == IF ids = {} THEN 0 ELSE ActivationTotal(events, ids)
    IN  /\ users' = IF users[uid].exists
                    THEN [users EXCEPT ![uid].total_team_business = total]
                    ELSE users
        /\ last' = [Blank EXCEPT !.op = "recompute", !.uid = uid,
                                 !.amount = total]
        /\ UNCHANGED <<incs, relink, nDeposits, nResets, events, bot, pending>>

\* ------------------------------------------------- concurrent deposits
\* the request handlers that may run at the same time
Slots == {1, 2}

\* no request in flight
Idle == [busy |-> FALSE, uid |-> NONE, ref |-> NONE, amount |-> 0,
         snap |-> [u \in AllIds |-> NoUser]]

NoPending == [req |-> [s \in Slots |-> Idle], volume |-> [u \in IDs |-> 0]]

\* Each request runs in its own session (SessionLocal() per request) and no
\* row is locked.  The session computes every new value in Python from the
\* rows it has read and the final commit writes, for each row it changed, the
\* columns it changed.
\* The row left by a commit: the session's value for the columns it changed,
\* the stored value for the others.
WrittenRow(cur, read, new) ==
    [exists |-> cur.exists \/ new.exists,
     referrer_id |-> IF new.referrer_id # read.referrer_id
                     THEN new.referrer_id ELSE cur.referrer_id,
     self_activated |-> IF new.self_activated # read.self_activated
                        THEN new.self_activated ELSE cur.self_activated,
     role |-> IF new.role # read.role THEN new.role ELSE cur.role,
     total_team_business |-> IF new.total_team_business # read.total_team_business
                             THEN new.total_team_business
                             ELSE cur.total_team_business,
     active_origin_count |-> IF new.active_origin_count # read.active_origin_count
                             THEN new.active_origin_count
                             ELSE cur.active_origin_count,
     club_income |-> IF new.club_income # read.club_income
                     THEN new.club_income ELSE cur.club_income,
     balance_musd |-> IF new.balance_musd # read.balance_musd
                      THEN new.balance_musd ELSE cur.balance_musd,
     balance_mstc |-> IF new.balance_mstc # read.balance_mstc
                      THEN new.balance_mstc ELSE cur.balance_mstc]

\* webapp_verify up to the point where its session has loaded its rows:
\* get_or_create_user and the force-link have committed.
BeginVerify(s, uid, ref, amount) ==
    /\ ~pending.req[s].busy
    /\ users' = ForceLink(GetOrCreateUser(users, uid, ref), uid, ref)
    /\ pending' = [pending EXCEPT
                     !.req[s] = [busy |-> TRUE, uid |-> uid, ref |-> ref,
                                 amount |-> amount, snap |-> users']]
    /\ relink' = Relinked(uid, ref)
    /\ UNCHANGED <<last, incs, nDeposits, nResets, events, bot>>

\* the rest of webapp_verify, computed on the rows read, and its commit.  A
\* session that did not see the pool row inserts it (get_company_user); if
\* another request has inserted it meanwhile the insert fails on the primary
\* key and the except block rolls the request back.
CommitVerify(s) ==
    LET r == pending.req[s]
        run == VerifyRun(r.snap, r.uid, r.ref, r.amount)
        conflict == /\ ~r.snap[COMPANY_USER_ID].exists
                    /\ run.final[COMPANY_USER_ID].exists
                    /\ users[COMPANY_USER_ID].exists
        alone == VerifyRun(users, r.uid, r.ref, r.amount)
    IN  /\ r.busy
        /\ users' = IF conflict THEN users
                     ELSE [u \in AllIds |->
                             WrittenRow(users[u], r.snap[u], run.final[u])]
        /\ last' = [Blank EXCEPT
              !.op = "verify", !.uid = r.uid, !.amount = r.amount,
              !.status = IF conflict THEN "server_error" ELSE "ok",
              !.became = run.became /\ ~conflict]
        /\ incs' = CountIncrements(r.uid, run.became, run.visited, ~conflict)
        /\ pending' = [pending EXCEPT
              !.req[s] = Idle,
              !.volume = [u \in IDs |->
                  IF conflict THEN @[u]
                  ELSE @[u] + alone.final[u].total_team_business
                            - users[u].total_team_business]]
        /\ nDeposits' = nDeposits + 1
        /\ UNCHANGED <<relink, nResets, events, bot>>

\* propagate_team_business, get_company_user and get_uplines load the rows
\* of the ancestors and of the pool with db.get when they reach them, later
\* than the depositor's row, which get_or_create_user loaded: those rows are
\* read as committed at that later moment.
LoadUplines(s) ==
    /\ pending.req[s].busy
    /\ pending' = [pending EXCEPT
                     !.req[s].snap = [u \in AllIds |->
                                        IF u = pending.req[s].uid THEN @[u]
                                        ELSE users[u]]]
    /\ last' = [Blank EXCEPT !.op = "load", !.uid = pending.req[s].uid]
    /\ UNCHANGED <<users, incs, relink, nDeposits, nResets, events, bot>>

\* ------------------------------------------------------------ registration
\* /webapp/me: ref_id is int(raw_ref) for a truthy raw_ref, else None.
WebappMe(uid, ref) ==
    /\ users' = GetOrCreateUser(users, uid, ref)
    /\ relink' = Relinked(uid, ref)
    /\ UNCHANGED <<last, incs, nDeposits, nResets, events, bot, pending>>

\* a /webapp/init that would create the caller's row, as /webapp/me does
WebappInitCreating(uid, ref) ==
    /\ users' = GetOrCreateUser(users, uid, ref)
    /\ last' = [Blank EXCEPT !.op = "webapp_init", !.uid = uid,
                             !.status = IF users[uid].exists THEN "exists" ELSE "new",
                             !.referrer_id = IF users[uid].exists
                                             THEN users[uid].referrer_id
                                             ELSE IF Exists(users, ref) THEN ref
                                             ELSE NONE]
    /\ UNCHANGED <<incs, relink, nDeposits, nResets, events, bot, pending>>

\* /webapp/init: answers with the caller's row if there is one, else with
\* the referrer the request names if that account exists; writes nothing.
WebappInit(uid, ref) ==
    /\ users' = users
    /\ last' = [Blank EXCEPT !.op = "webapp_init", !.uid = uid,
                             !.status = IF users[uid].exists THEN "exists" ELSE "new",
                             !.referrer_id = IF users[uid].exists
                                             THEN users[uid].referrer_id
                                             ELSE IF Exists(users, ref) THEN ref
                                             ELSE NONE]
    /\ UNCHANGED <<incs, relink, nDeposits, nResets, events, bot, pending>>

\* /webapp/register
WebappRegister(uid, ref) ==
    /\ users' =
         IF users[uid].exists
         THEN IF users[uid].referrer_id = NONE /\ Truthy(ref) /\ ref # uid
              THEN LinkReferrerIfNeeded(users, uid, ref)
              ELSE users
         ELSE LET r == IF ref = uid THEN NONE ELSE ref
              IN  LinkReferrerIfNeeded(GetOrCreateUser(users, uid, r), uid, r)
    /\ relink' = Relinked(uid, ref)
    /\ UNCHANGED <<last, incs, nDeposits, nResets, events, bot, pending>>

\* /bot/start: ref is int(ref_code) for a truthy ref_code, else None.
BotStart(uid, ref) ==
    /\ users' =
         IF ~users[uid].exists
         THEN [users EXCEPT ![uid] = NewUser(ref)]
         ELSE IF ref # NONE /\ ~Truthy(users[uid].referrer_id)
         THEN [users EXCEPT ![uid].referrer_id = ref]
         ELSE users
    /\ relink' = Relinked(uid, ref)
    /\ UNCHANGED <<last, incs, nDeposits, nResets, events, bot, pending>>

\* /debug/reset_origin/<user_id>
DebugResetOrigin(uid) ==
    /\ users[uid].exists
    /\ users' = [users EXCEPT ![uid].self_activated = FALSE, ![uid].role = "user"]
    /\ nResets' = nResets + 1
    /\ UNCHANGED <<last, incs, relink, nDeposits, events, bot, pending>>

\* ------------------------------------------------- the bot's polling loop
\* bot.py polling_loop(stop_event).  pc: where the thread is ("check" the
\* while test, "poll" inside requests.get, "handle" in the for loop,
\* "stopped" after the loop).  offset: the local of that name.  batch: the
\* updates of the answer not yet iterated.  handed: the update ids passed to
\* handle_command, in order.  stop: stop_event.  Telegram numbers updates
\* upwards: next is the id of the next update to arrive, confirmed the lowest
\* id it still holds.  seen: the kinds of answers and of handler outcomes met
\* so far.
BotIdle ==
    [pc |-> "check", offset |-> NONE, batch |-> <<>>, handed |-> <<>>,
     stop |-> FALSE, next |-> 1, confirmed |-> 1, seen |-> {}]

\* the rest of the system while the bot runs
BackendIdle == UNCHANGED <<users, last, incs, relink, nDeposits, nResets, events, pending>>

\* a user sends the bot a message
NewUpdate ==
    /\ bot.next <= MaxUpdates
    /\ bot' = [bot EXCEPT !.next = @ + 1]
    /\ BackendIdle

\* the caller sets the stop event
SetStop ==
    /\ ~bot.stop
    /\ bot' = [bot EXCEPT !.stop = TRUE]
    /\ BackendIdle

\* while not stop_event.is_set()
CheckStop ==
    /\ bot.pc = "check"
    /\ bot' = [bot EXCEPT !.pc = IF bot.stop THEN "stopped" ELSE "poll"]
    /\ BackendIdle

\* the id from which getUpdates answers: the offset if one is sent and
\* Telegram still holds it, else the lowest id held
FirstReturned(b) ==
    IF b.offset # NONE /\ b.offset > b.confirmed THEN b.offset ELSE b.confirmed

\* the ids from..to in ascending order
RECURSIVE IdsFromTo(_, _)
IdsFromTo(from, to) ==
    IF from > to THEN <<>> ELSE <<from>> \o IdsFromTo(from + 1, to)

\* requests.get returns 200 and ok=true with the updates from..to, in
\* ascending order; an offset confirms every update below it
PollAnswers ==
    /\ bot.pc = "poll"
    /\ \E to \in (FirstReturned(bot) - 1)..(bot.next - 1) :
          bot' = [bot EXCEPT !.pc = "handle",
                             !.confirmed = FirstReturned(bot),
                             !.batch = IdsFromTo(FirstReturned(bot), to)]
    /\ BackendIdle

\* requests.get raises ReadTimeout or another exception, or answers with a
\* status other than 200 or with ok=false: back to the while test
PollFails ==
    /\ bot.pc = "poll"
    /\ \E kind \in {"timeout", "non200", "okfalse", "exception"} :
          bot' = [bot EXCEPT !.pc = "check", !.seen = @ \cup {kind}]
    /\ BackendIdle

\* a loop body that would move the offset only once handle_command has
\* returned, and would let its exception leave the for loop
HandleUpdateOffsetLast ==
    /\ bot.pc = "handle"
    /\ IF bot.batch = <<>>
       THEN bot' = [bot EXCEPT !.pc = "check"]
       ELSE \E raised \in BOOLEAN :
              bot' = IF raised
                     THEN [bot EXCEPT !.pc = "check", !.batch = <<>>,
                                      !.handed = Append(@, Head(bot.batch)),
                                      !.seen = @ \cup {"raised"}]
                     ELSE [bot EXCEPT !.offset = Head(bot.batch) + 1,
                                      !.handed = Append(@, Head(bot.batch)),
                                      !.batch = Tail(@)]
    /\ BackendIdle

\* for upd in updates: offset = upd['update_id'] + 1; handle_command(...).
\* handle_command catches every exception it raises.  After the last
\* update: time.sleep and back to the while test.
HandleUpdate ==
    /\ bot.pc = "handle"
    /\ IF bot.batch = <<>>
       THEN bot' = [bot EXCEPT !.pc = "check"]
       ELSE \E raised \in BOOLEAN :
              bot' = [bot EXCEPT !.offset = Head(bot.batch) + 1,
                                 !.handed = Append(@, Head(bot.batch)),
                                 !.batch = Tail(@),
                                 !.seen = IF raised THEN @ \cup {"raised"} ELSE @]
    /\ BackendIdle

\* a step of the polling thread
LoopStep == CheckStop \/ PollAnswers \/ PollFails \/ HandleUpdate

\* ------------------------------------------------------------ the system
NoGhost ==
    /\ last = Blank
    /\ incs = [d \in IDs |-> [p \in IDs |-> 0]]
    /\ relink = [uid |-> NONE, ref |-> NONE]
    /\ nDeposits = 0
    /\ nResets = 0
    /\ events = <<>>
    /\ pending = NoPending
    /\ bot = BotIdle

\* the store of a fresh deployment
Init ==
    /\ users = [u \in AllIds |-> NoUser]
    /\ NoGhost

\* The stores the registration endpoints alone reach from the empty store:
\* every account is absent or a fresh row whose referrer is whatever id the
\* first request for it carried (/bot/start stores any ref_code on a new row).
\* A stored referrer of 0 is left out: every read on the deposit path is a
\* truthiness test, which takes 0 and None alike.
Registered ==
    {db \in [AllIds -> {NoUser} \cup {NewUser(r) : r \in {NONE} \cup IDs}] :
        ~db[COMPANY_USER_ID].exists}

InitRegistered ==
    /\ users \in Registered
    /\ NoGhost

\* deposits on registered stores
Next ==
    \E uid \in IDs, amount \in Amounts :
        nDeposits < MaxDeposits /\ WebappVerify(uid, NONE, amount, "")

Spec == InitRegistered /\ [][Next]_vars

\* deposits and administrative resets, from the empty store
NextReset ==
    \/ \E uid \in IDs, ref \in RefInputs :
          nDeposits < MaxResetDeposits /\ WebappVerify(uid, ref, ACTIVATION_AMOUNT, "")
    \/ \E uid \in IDs :
          nResets < MaxResets /\ DebugResetOrigin(uid)

SpecReset == Init /\ [][NextReset]_vars

\* every endpoint that creates or links accounts, from the empty store
NextReg ==
    \/ \E uid \in IDs, ref \in {NONE} \cup IDs : WebappMe(uid, ref)
    \/ \E uid \in IDs, ref \in RefInputs : WebappRegister(uid, ref)
    \/ \E uid \in IDs, ref \in RefInputs : BotStart(uid, ref)
    \/ \E uid \in IDs, ref \in RefInputs :
          nDeposits < MaxRegDeposits /\ WebappVerify(uid, ref, ACTIVATION_AMOUNT, "")

SpecReg == Init /\ [][NextReg]_vars

\* deposits that succeed or raise, with client references, from the empty store
NextFail ==
    \/ \E uid \in IDs, ref \in RefInputs, amount \in Amounts, ext \in ExtRefs :
          nDeposits < MaxFailDeposits /\ WebappVerify(uid, ref, amount, ext)
    \/ \E uid \in IDs, ref \in RefInputs, amount \in Amounts, fail \in FailPoints :
          nDeposits < MaxFailDeposits /\ WebappVerifyFails(uid, ref, amount, fail)

SpecFail == Init /\ [][NextFail]_vars

\* deposits of sponsor-less accounts, from the empty store
NextClub ==
    \E uid \in IDs, amount \in Amounts :
        nDeposits < MaxClubDeposits /\ WebappVerify(uid, NONE, amount, "")

SpecClub == Init /\ [][NextClub]_vars

\* registration, bot start and deposits around the activation threshold, from
\* the empty store
NextAct ==
    \/ \E uid \in IDs, ref \in ActRefs : WebappMe(uid, ref)
    \/ \E uid \in IDs, ref \in ActRefs : WebappRegister(uid, ref)
    \/ \E uid \in IDs, ref \in ActRefs : BotStart(uid, ref)
    \/ \E uid \in IDs, amount \in ActAmounts :
          nDeposits < MaxActDeposits /\ WebappVerify(uid, NONE, amount, "")

SpecAct == Init /\ [][NextAct]_vars

\* deposits at the rank thresholds on registered stores
NextRank ==
    \E uid \in IDs, amount \in RankAmounts :
        nDeposits < MaxRankDeposits /\ WebappVerify(uid, NONE, amount, "")

SpecRank == InitRegistered /\ [][NextRank]_vars

\* update_rank applied to one row, the row's fields drawn around the
\* thresholds and its stored role drawn from every value the code writes
\* (and the column default 'member')
RankVolumes ==
    {0, LIFE_CHANGER_MIN - 1, LIFE_CHANGER_MIN, ADVISOR_MIN - 1, ADVISOR_MIN,
     VISIONARY_MIN - 1, VISIONARY_MIN, CREATOR_MIN - 1, CREATOR_MIN}

RankCounts == {0, LIFE_CHANGER_ORIGINS - 1, LIFE_CHANGER_ORIGINS}

RankRoles ==
    {"", "user", "member", "origin", "life_changer", "advisor", "visionary",
     "creator"}

RankRows ==
    {[NoUser EXCEPT !.exists = TRUE, !.total_team_business = v,
                    !.active_origin_count = c, !.self_activated = a,
                    !.role = r] :
        v \in RankVolumes, c \in RankCounts, a \in BOOLEAN, r \in RankRoles}

InitRank ==
    /\ \E row \in RankRows : users = [u \in AllIds |-> IF u = 1 THEN row ELSE NoUser]
    /\ NoGhost

\* update_rank(user) on account 1; last keeps the role stored before the call
UpdateRankCall ==
    /\ users' = [users EXCEPT ![1].role = UpdateRank(users[1])]
    /\ last' = [Blank EXCEPT !.op = "update_rank", !.uid = 1,
                             !.role = users[1].role]
    /\ UNCHANGED <<incs, relink, nDeposits, nResets, events, bot, pending>>

SpecEval == InitRank /\ [][UpdateRankCall]_vars

\* deposit requests of different accounts, up to two in flight at a time,
\* from the empty store; a referrer id, when given, is that of an account
InFlight == Cardinality({s \in Slots : pending.req[s].busy})

NextConc ==
    \/ \E s \in Slots, uid \in IDs, ref \in ActRefs, amount \in ActAmounts :
          /\ nDeposits + InFlight < MaxConcDeposits
          /\ ref # NONE => Exists(users, ref)
          /\ \A t \in Slots : pending.req[t].busy => pending.req[t].uid # uid
          /\ BeginVerify(s, uid, ref, amount)
    \/ \E s \in Slots : CommitVerify(s)

SpecConc == Init /\ [][NextConc]_vars

\* deposit requests with every kind of amount, from the empty store, while
\* the store holds numbers only
NextInvalid ==
    \E uid \in IDs, ref \in RefInputs, raw \in RawAmounts :
        /\ nDeposits < MaxInvalidDeposits
        /\ ~HasNaN(users)
        /\ WebappVerifyPayload(uid, ref, raw)

SpecInvalid == Init /\ [][NextInvalid]_vars

\* deposits that succeed or raise, with amounts that leave rounding
\* leftovers and lift sponsors over a rank threshold, from the empty store
NextPool ==
    \/ \E uid \in IDs, ref \in ActRefs, amount \in PoolAmounts :
          nDeposits < MaxPoolDeposits /\ WebappVerify(uid, ref, amount, "")
    \/ \E uid \in IDs, ref \in ActRefs, amount \in PoolAmounts, fail \in FailPoints :
          nDeposits < MaxPoolDeposits /\ WebappVerifyFails(uid, ref, amount, fail)

SpecPool == Init /\ [][NextPool]_vars

\* the four web-app endpoints, from the empty store
NextWeb ==
    \/ \E uid \in IDs, ref \in ActRefs : WebappMe(uid, ref)
    \/ \E uid \in IDs, ref \in ActRefs : WebappInit(uid, ref)
    \/ \E uid \in IDs, ref \in ActRefs : WebappRegister(uid, ref)
    \/ \E uid \in IDs, ref \in ActRefs :
          nDeposits < MaxWebDeposits /\ WebappVerify(uid, ref, ACTIVATION_AMOUNT, "")

SpecWeb == Init /\ [][NextWeb]_vars

\* the five upward walks on registered stores, cyclic ones included
NextWalk ==
    \/ \E uid \in IDs : nDeposits < MaxWalks /\ GetUplinesCall(uid)
    \/ \E uid \in IDs : nDeposits < MaxWalks /\ ReferrerChainCall(uid)
    \/ \E uid \in IDs : nDeposits < MaxWalks /\ PropagateCall(uid)
    \/ \E uid \in IDs : nDeposits < MaxWalks /\ IncrementCall(uid)
    \/ \E uid \in IDs : nDeposits < MaxWalks /\ CreditStart(uid)
    \/ CreditStep

SpecWalk == InitRegistered /\ [][NextWalk]_vars

\* a chain of three registered accounts that have not deposited: 2 is
\* sponsored by 1 and 3 by 2
InitChain ==
    /\ users = [u \in AllIds |->
                  IF u = 1 THEN NewUser(NONE)
                  ELSE IF u \in IDs THEN NewUser(u - 1)
                  ELSE NoUser]
    /\ NoGhost

\* activating deposits on the chain, up to two requests in flight at a
\* time, also of the same account
NextRace ==
    \/ \E s \in Slots, uid \in IDs, amount \in RankAmounts :
          /\ nDeposits + InFlight < MaxRaceDeposits
          /\ BeginVerify(s, uid, NONE, amount)
    \/ \E s \in Slots : LoadUplines(s)
    \/ \E s \in Slots : CommitVerify(s)

SpecRace == InitChain /\ [][NextRace]_vars

\* registrations, deposits up to the advisor threshold and administrative
\* resets, from the empty store
NextDrift ==
    \/ \E uid \in IDs, ref \in ActRefs : WebappRegister(uid, ref)
    \/ \E uid \in IDs, amount \in DriftAmounts :
          nDeposits < MaxDriftDeposits /\ WebappVerify(uid, NONE, amount, "")
    \/ \E uid \in IDs :
          nResets < MaxResets /\ DebugResetOrigin(uid)

SpecDrift == Init /\ [][NextDrift]_vars

\* deposits and batch recomputations, from the empty store
NextRecompute ==
    \/ \E uid \in IDs, ref \in ActRefs, amount \in ActAmounts :
          nDeposits < MaxRecomputeDeposits /\ WebappVerify(uid, ref, amount, "")
    \/ \E uid \in IDs : RecomputeTotalTeamBusiness(uid)

SpecRecompute == Init /\ [][NextRecompute]_vars

\* the polling thread, Telegram and the caller's stop event; the thread
\* keeps running: every request returns or times out, every sleep ends
NextBot ==
    \/ NewUpdate
    \/ SetStop
    \/ CheckStop
    \/ PollAnswers
    \/ PollFails
    \/ HandleUpdate

SpecBot == Init /\ [][NextBot]_vars /\ WF_vars(LoopStep)

\* ===================================================================
\* Properties
\* ===================================================================
VerifyOk == last.op = "verify" /\ last.status = "ok"

\* a step that is a /webapp/verify request
VerifyStep == nDeposits' = nDeposits + 1

\* C1 (conservation): after a successful deposit of amount A, everything the
\* deposit credited to any account -- commissions, club shares, company pool
\* and the depositor's own balances -- adds up to A.
C1_Conservation == VerifyOk => last.credited = last.amount

\* C2 (idempotency): a deposit that repeats the previous successful one (same
\* account, amount and external reference) changes no account and answers
\* with the same report.
C2_Idempotent ==
    [][(VerifyStep /\ last'.status = "ok" /\ last'.dup)
         => (/\ users' = users
             /\ last'.dist = last.dist
             /\ last'.became = last.became
             /\ last'.role = last.role)]_vars

\* C3 (atomicity): a deposit request that fails leaves the store as it was
\* before the request.
C3_Atomic ==
    [][(VerifyStep /\ last'.status = "server_error") => users' = users]_vars

\* the accounts reached from x by following referrer_id, x excluded unless
\* the links lead back to it
RECURSIVE SponsorChain(_, _, _)
SponsorChain(db, x, n) ==
    IF n = 0 \/ ~Truthy(db[x].referrer_id) \/ ~Exists(db, db[x].referrer_id)
    THEN {}
    ELSE {db[x].referrer_id} \cup SponsorChain(db, db[x].referrer_id, n - 1)

Ancestors(db, x) == SponsorChain(db, x, Cardinality(IDs))

\* C4 (acyclic sponsor relation): following sponsor links from an account
\* never returns to it; no account is its own sponsor.
C4_Acyclic ==
    \A u \in IDs : users[u].exists =>
        /\ users[u].referrer_id # u
        /\ u \notin Ancestors(users, u)

RECURSIVE SponsorAt(_, _, _)
SponsorAt(db, x, k) ==
    LET r == db[x].referrer_id IN
    IF ~Truthy(r) \/ ~Exists(db, r) THEN NONE
    ELSE IF k = 1 THEN r
    ELSE SponsorAt(db, r, k - 1)

LevelsWithAncestor(db, x) == {k \in 1..3 : SponsorAt(db, x, k) # NONE}

\* the percentage table of the claim; an unranked direct sponsor earns 0
TierPct(k, rank) ==
    IF k = 2 THEN 3
    ELSE IF k = 3 THEN 2
    ELSE IF rank = "origin" THEN 5
    ELSE IF rank = "life_changer" THEN 10
    ELSE IF rank = "advisor" THEN 15
    ELSE IF rank = "visionary" THEN 20
    ELSE IF rank = "creator" THEN 25
    ELSE 0

TierQualifies(k, u) ==
    \/ k = 1 /\ u.self_activated
    \/ k = 2 /\ u.role \in {"life_changer", "advisor", "visionary", "creator"}
    \/ k = 3 /\ u.role \in {"advisor", "visionary", "creator"}

\* round(A * p, 2) on cents
TierAmount(k, u, amount) == (amount * TierPct(k, u.role) + 50) \div 100

TierLine(db, x, k, amount) ==
    LET id == SponsorAt(db, x, k) IN
    IF id = NONE THEN <<>>
    ELSE IF TierPct(k, db[id].role) = 0 THEN <<>>
    ELSE IF TierQualifies(k, db[id])
    THEN <<[level |-> k, to_user_id |-> id,
            amount |-> TierAmount(k, db[id], amount)]>>
    ELSE <<[level |-> 0, to_user_id |-> NONE,
            amount |-> TierAmount(k, db[id], amount)]>>

C7_OneLinePerLevel ==
    (VerifyOk /\ last.uid \notin Ancestors(users, last.uid))
      => Len(last.dist) = Cardinality(LevelsWithAncestor(users, last.uid))

C9_OwnSplit ==
    VerifyOk =>
      /\ 100 * last.own_musd = 70 * last.amount
      /\ 100 * last.own_mstc = 30 * last.amount

C11_ActivationOneWay ==
    [][/\ \A u \in IDs : users[u].self_activated => users'[u].self_activated
       /\ (VerifyStep /\ last'.became)
            => /\ ~users[last'.uid].self_activated
               /\ users'[last'.uid].self_activated]_vars

\* an activated account made a further deposit of the threshold amount, which
\* did not activate it again
C11_Witness ==
    /\ VerifyOk
    /\ last.amount >= ACTIVATION_AMOUNT
    /\ ~last.became
    /\ users[last.uid].self_activated
    /\ users[last.uid].total_team_business >= 2 * ACTIVATION_AMOUNT

\* C12 (activation rule): a deposit activates the depositor exactly when the
\* depositor was not activated and the amount of this deposit is at least 20,
\* whatever the cumulative total; a new sponsor-less account depositing
\* exactly 20, with no club achiever in the store, ends activated with rank
\* origin, gets no commission line, and the 2% goes to the company pool.
C12_ActivationRule ==
    [][(VerifyStep /\ last'.status = "ok") =>
         LET x == last'.uid
             A == last'.amount
             rule == ~users[x].self_activated /\ A >= 2000
         IN  /\ (users'[x].self_activated # users[x].self_activated) <=> rule
             /\ last'.became <=> rule
             /\ (/\ ~users[x].exists
                 /\ ~Truthy(users'[x].referrer_id)
                 /\ A = 2000
                 /\ Achievers(users) = {})
                  => /\ users'[x].self_activated
                     /\ users'[x].role = "origin"
                     /\ last'.dist = <<>>
                     /\ last'.club.shares = 0
                     /\ last'.club.pool = 40
                     /\ users'[COMPANY_USER_ID].balance_musd
                          = users[COMPANY_USER_ID].balance_musd + 40]_vars

\* one account was activated by a first deposit of exactly 20 and is an
\* origin; another has just deposited less than 20 for the second time, has
\* a total of more than 20 and is not activated
C12_Witness ==
    /\ VerifyOk
    /\ last.amount < ACTIVATION_AMOUNT
    /\ ~last.became
    /\ ~users[last.uid].self_activated
    /\ users[last.uid].total_team_business >= ACTIVATION_AMOUNT
    /\ \E a \in IDs \ {last.uid} :
          /\ users[a].self_activated /\ users[a].role = "origin"
          /\ users[a].total_team_business = ACTIVATION_AMOUNT
          /\ ~Truthy(users[a].referrer_id)

\* the claim's order of ranks; every role that is none of the five is unranked
RankOrd(role) ==
    IF role = "origin" THEN 1
    ELSE IF role = "life_changer" THEN 2
    ELSE IF role = "advisor" THEN 3
    ELSE IF role = "visionary" THEN 4
    ELSE IF role = "creator" THEN 5
    ELSE 0

\* C13 (rank monotonicity): no deposit leaves any account with a rank lower
\* than the rank it had after the deposit before.
C13_RankMonotone ==
    [][\A u \in IDs : RankOrd(users'[u].role) >= RankOrd(users[u].role)]_vars

\* an account that ranked advisor or higher through its downline without
\* being activated has made its activating deposit and kept its rank
C13_Witness ==
    /\ VerifyOk
    /\ last.became
    /\ last.amount = ACTIVATION_AMOUNT
    /\ users[last.uid].total_team_business >= ADVISOR_MIN + ACTIVATION_AMOUNT
    /\ RankOrd(users[last.uid].role) >= 3

\* the claim's table: first match wins, unranked at the end
TableRank(volume, count, activated) ==
    IF volume >= 10000000 THEN "creator"
    ELSE IF volume >= 2500000 THEN "visionary"
    ELSE IF volume >= 500000 THEN "advisor"
    ELSE IF volume >= 100000 /\ count >= 10 THEN "life_changer"
    ELSE IF activated THEN "origin"
    ELSE "unranked"

\* C14 (rank evaluation): after update_rank the account's rank is the first
\* match of the table on (team_volume, active_descendant_count, activated),
\* whatever rank was stored before the call.
C14_PureRank ==
    last.op = "update_rank" =>
        RankOrd(users[1].role)
          = RankOrd(TableRank(users[1].total_team_business,
                              users[1].active_origin_count,
                              users[1].self_activated))

\* no account is among its own ancestors
Acyclic(db) == \A u \in IDs : u \notin Ancestors(db, u)

\* C15 (frame of a deposit): in an acyclic sponsor forest a successful
\* deposit of A by X adds exactly A to the team business of X and of every
\* ancestor of X, adds one to every ancestor's active_origin_count if X
\* became activated in this deposit and nothing otherwise, and leaves both
\* fields of every other account unchanged.
C15_Frame ==
    [][(VerifyStep /\ last'.status = "ok" /\ Acyclic(users')) =>
         LET x == last'.uid
             anc == Ancestors(users', x)
         IN  \A u \in IDs :
               /\ users'[u].total_team_business
                    = users[u].total_team_business
                      + (IF u = x \/ u \in anc THEN last'.amount ELSE 0)
               /\ users'[u].active_origin_count
                    = users[u].active_origin_count
                      + (IF u \in anc /\ last'.became THEN 1 ELSE 0)]_vars

\* an activating deposit at the bottom of a chain of three accounts
C15_Witness ==
    /\ VerifyOk
    /\ last.became
    /\ Acyclic(users)
    /\ Cardinality(Ancestors(users, last.uid)) = 2
    /\ \A a \in Ancestors(users, last.uid) :
          /\ users[a].active_origin_count >= 1
          /\ users[a].total_team_business >= last.amount

\* C16 (team business only from the downline): the team business of an
\* account never decreases, and it changes only by a deposit of a strict
\* descendant of the account, never by a deposit of the account itself.
C16_OnlyFromDescendants ==
    [][\A u \in IDs :
         /\ users'[u].total_team_business >= users[u].total_team_business
         /\ users'[u].total_team_business # users[u].total_team_business
              => /\ VerifyStep
                 /\ last'.uid # u
                 /\ u \in Ancestors(users', last'.uid)]_vars

\* C17 (cycles abort the deposit): a deposit whose upward walk meets an
\* account a second time does not succeed.
C17_CycleAborts ==
    VerifyOk =>
        /\ last.uid \notin Ancestors(users, last.uid)
        /\ \A a \in Ancestors(users, last.uid) : a \notin Ancestors(users, a)

\* C18 (no lost update): once the deposits in flight have committed, every
\* account's team business is the sum of what the committed deposits add to
\* it when processed one after the other.
C18_NoLostUpdate ==
    InFlight = 0 =>
        \A u \in IDs : users[u].total_team_business = pending.volume[u]

\* C19 (invalid amount): a deposit request whose amount is missing, not a
\* number, zero or negative is answered with invalid_amount and leaves every
\* stored row as it was.
InvalidRaws == {"None", "abc", "0", "-5", "nan"}

C19_InvalidRejected ==
    [][VerifyStep /\ last'.raw \in InvalidRaws
         => users' = users /\ last'.status = "invalid_amount"]_vars

\* C20 (audit trail): after a successful deposit the transactions and
\* referral_events tables hold records whose amounts add up to everything
\* the deposits credited to the accounts and to the pool.
EventTotal ==
    SumOver([i \in 1..Len(events) |-> events[i].amount], 1..Len(events))

C20_AuditTrail == VerifyOk => EventTotal = TotalHeld(users)

\* C21 (company pool): the reserved id is the only pool account; it is
\* created by a deposit that routes a positive amount to it and never
\* deleted; its balance never decreases and grows, on every committed
\* deposit, by exactly what that deposit routed to the pool: the amounts of
\* its unqualified levels, its undistributed 2% cut or its rounding leftover.
UnqualifiedTotal(dist) ==
    SumOver([i \in 1..Len(dist) |->
               IF dist[i].to_user_id = NONE THEN dist[i].amount ELSE 0],
            1..Len(dist))

ClubRouted(cut, n) ==
    IF cut <= 0 THEN 0
    ELSE IF n = 0 THEN cut
    ELSE IF PerUser(cut, n) <= 0 THEN cut
    ELSE IF cut - n * PerUser(cut, n) > 0 THEN cut - n * PerUser(cut, n)
    ELSE 0

PoolRouted(l) ==
    IF l.op = "verify" /\ l.status = "ok"
    THEN UnqualifiedTotal(l.dist) + ClubRouted(l.club.cut, l.club.n)
    ELSE 0

C21_CompanyPool ==
    [][/\ \A u \in IDs : users'[u].role # "company"
       /\ users[COMPANY_USER_ID].exists => users'[COMPANY_USER_ID].exists
       /\ ~users[COMPANY_USER_ID].exists /\ users'[COMPANY_USER_ID].exists
            => /\ VerifyStep
               /\ last'.status = "ok" => PoolRouted(last') > 0
       /\ users'[COMPANY_USER_ID].balance_musd >= users[COMPANY_USER_ID].balance_musd
       /\ users'[COMPANY_USER_ID].balance_musd
            = users[COMPANY_USER_ID].balance_musd + PoolRouted(last')]_vars

\* a deposit shared between two achievers left a rounding leftover to the
\* pool, which already held earlier amounts
C21_Witness ==
    /\ VerifyOk
    /\ last.club.n >= 2
    /\ last.club.pool > 0
    /\ users[COMPANY_USER_ID].balance_musd > last.club.pool

\* C22 (pool income): a committed deposit changes an account's club_income
\* by nothing or by its equal share of the deposit's 2% cut; the level-1,
\* level-2 and level-3 commissions leave club_income alone.
ClubShare(l) == IF l.club.n > 0 THEN PerUser(l.club.cut, l.club.n) ELSE 0

Accounts(db) == {u \in AllIds : db[u].exists}

MeStep == \E uid \in IDs, ref \in ActRefs : WebappMe(uid, ref)

\* a step that is a /webapp/init request: the only one that leaves its
\* answer in last without counting as a deposit
InitStep == last' # last /\ last'.op = "webapp_init"

WalkOps ==
    {"get_uplines", "_get_referrer_chain", "propagate_team_business",
     "_increment_active_origins_for_upline", "credit_team_business"}

NoDuplicates(seq) ==
    \A i \in 1..Len(seq), j \in 1..Len(seq) : i # j => seq[i] # seq[j]

C24_WalksVisitOnce == last.op \in WalkOps => NoDuplicates(last.uplines)

\* C25 (concurrent activation): once the deposits of at least 20 that ran
\* at the same time have committed, every depositor is activated and every
\* account's active_origin_count is the number of its activated
\* descendants: each of them was counted once, not twice.
ActivatedDescendants(db, u) ==
    {d \in IDs : db[d].self_activated /\ u \in Ancestors(db, d)}

C25_CountedOncePerAccount ==
    InFlight = 0 =>
        /\ VerifyOk => users[last.uid].self_activated
        /\ \A u \in IDs :
              users[u].active_origin_count
                  = Cardinality(ActivatedDescendants(users, u))

\* C26 (ordering within a deposit): the lines of the level-1, level-2 and
\* level-3 commissions and the number of accounts that share the 2% cut are
\* those the ranks and activation flags give as they stand after the
\* deposit's activation, propagation and rank recomputation.
LevelsEvaluatedAfter ==
    last.dist = TierLine(users, last.uid, 1, last.amount)
                \o TierLine(users, last.uid, 2, last.amount)
                \o TierLine(users, last.uid, 3, last.amount)

ClubEvaluatedAfter == last.club.n = Cardinality(Achievers(users))

C26_EvaluatedAfterUpdate ==
    (VerifyOk /\ Acyclic(users)) => LevelsEvaluatedAfter /\ ClubEvaluatedAfter

\* C27 (no self-profit): a successful deposit by X credits no commission
\* line to X, adds its amount to X's total_team_business at most once and
\* leaves X's own active_origin_count as it was.
C27_NoSelfProfit ==
    [][VerifyStep /\ last'.status = "ok"
         => LET x == last'.uid IN
            /\ \A i \in 1..Len(last'.dist) : last'.dist[i].to_user_id # x
            /\ users'[x].total_team_business
                 <= users[x].total_team_business + last'.amount
            /\ users'[x].active_origin_count = users[x].active_origin_count]_vars

\* C28 (no rank drift): in every committed state each account's stored rank
\* is the rank of the table for its current total_team_business,
\* active_origin_count and self_activated, 'user' and 'member' read as
\* unranked.
C28_RankMatchesMetrics ==
    \A u \in IDs : users[u].exists =>
        RankOrd(users[u].role)
          = RankOrd(TableRank(users[u].total_team_business,
                              users[u].active_origin_count,
                              users[u].self_activated))

\* C29 (batch recomputation): in an acyclic sponsor forest
\* recompute_total_team_business returns the total_team_business the
\* deposits had left on the account and stores nothing else.
C29_RecomputeAgrees ==
    [][last'.op = "recompute" /\ Acyclic(users)
         => /\ last'.amount = users[last'.uid].total_team_business
            /\ users' = users]_vars

\* C30 (polling loop): an offset, once there is one, is one more than the
\* highest update id handed to handle_command, and none is sent before an
\* update was handed over; no update id is handed over twice, whatever the
\* polls answer and whether or not handling raises; no poll starts once
\* the stop event is set at the while test, and the loop then stops.
MaxOf(seq) == CHOOSE m \in {seq[i] : i \in 1..Len(seq)} :
                 \A i \in 1..Len(seq) : seq[i] <= m

OffsetFollowsHandled ==
    IF bot.handed = <<>> THEN bot.offset = NONE
    ELSE bot.offset = MaxOf(bot.handed) + 1

C30_PollingLoop ==
    /\ [](OffsetFollowsHandled /\ NoDuplicates(bot.handed))
    /\ [][bot.stop /\ bot.pc = "check" => bot'.pc # "poll"]_vars
    /\ (bot.stop ~> bot.pc = "stopped")

\* three updates were handed over in more than one poll, a poll timed out,
\* one answered with a status other than 200, a handler raised, and the
\* loop has stopped
C30_Witness ==
    /\ bot.pc = "stopped"
    /\ Len(bot.handed) = MaxUpdates
    /\ {"timeout", "non200", "okfalse", "raised"} \subseteq bot.seen

====
